---- MODULE Spec2Model ----
(***************************************************************************)
(* Custom64 (src/b64.py): a Base64-like codec whose alphabet is a table of *)
(* Chinese words, and the Flask handler that calls it.                     *)
(*                                                                         *)
(* A Python str is modelled as the sequence of its Unicode code points, a  *)
(* bytes object as a sequence of integers 0..255 and a string of '0'/'1'   *)
(* characters as a sequence over {0, 1}.  The value a call produces is a   *)
(* record [tag, val]: tag "return" with the returned value, or the name of *)
(* the exception raised with its message (str(e)) as val.                  *)
(***************************************************************************)
EXTENDS Integers, Sequences, FiniteSets, TLC

VARIABLES
    coder,      \* the module-level Custom64 instance (line 80)
    call,       \* the last completed call on coder: [fn, arg]
    ret,        \* what that call returned or raised
    form,       \* the last request handled by index(): [method, action, text]
    result,     \* the result index() handed to the template
    pc,         \* position of a decode() call executed step by step
    encoded,    \* decode/_segment: the argument
    tokens,     \* _segment: the sorted token list (line 53)
    i,          \* _segment: the scan position (0-based, line 54)
    segments    \* _segment: the tokens consumed so far

vars == <<coder, call, ret, form, result, pc, encoded, tokens, i, segments>>

----------------------------------------------------------------------------
(* Bounds of the model.                                                    *)

MaxTextLen == 3      \* code points in a text given to encode
MaxPieces == 3       \* tokens / stray characters in a string given to decode
MaxEncLen == 3       \* characters of the input of the step-by-step tokenizer
MaxTokLen == 2       \* characters of a token of a small table

----------------------------------------------------------------------------
(* Program constants.                                                      *)

pad_index == 65
bit_width == 6
byte_bits == 8

\* the default pad_symbol, '的'
pad_symbol_default == <<30340>>

\* the token list of sample_map, in enumerate order (index 0 first)
sample_tokens == <<
    <<39321, 39321>>,  \* 0
    <<36719, 36719>>,  \* 1
    <<29980, 29980>>,  \* 2
    <<31983, 31983>>,  \* 3
    <<34562, 34588>>,  \* 4
    <<22902, 27833>>,  \* 5
    <<33147, 33147>>,  \* 6
    <<37221, 37221>>,  \* 7
    <<33030, 33030>>,  \* 8
    <<28369, 28369>>,  \* 9
    <<23273, 23273>>,  \* 10
    <<30058, 33540, 28818, 21487, 20048>>,  \* 11
    <<30058, 33540, 28818, 31185, 27604>>,  \* 12
    <<33609, 33683>>,  \* 13
    <<34013, 33683>>,  \* 14
    <<33529, 26524>>,  \* 15
    <<39321, 34121>>,  \* 16
    <<33889, 33796>>,  \* 17
    <<37240, 37240>>,  \* 18
    <<36771, 36771>>,  \* 19
    <<29245, 29245>>,  \* 20
    <<21688, 21688>>,  \* 21
    <<40092, 40092>>,  \* 22
    <<33510, 33510>>,  \* 23
    <<29976, 29976>>,  \* 24
    <<32501, 32501>>,  \* 25
    <<24377, 24377>>,  \* 26
    <<28070, 28070>>,  \* 27
    <<27833, 27833>>,  \* 28
    <<28165, 28165>>,  \* 29
    <<27987, 27987>>,  \* 30
    <<37255, 37255>>,  \* 31
    <<28129, 28129>>,  \* 32
    <<24189, 24189>>,  \* 33
    <<28909, 28909, 20046, 20046>>,  \* 34
    <<20912, 20912, 20937, 20937>>,  \* 35
    <<40655, 40655>>,  \* 36
    <<31946, 31946>>,  \* 37
    <<40635, 40635>>,  \* 38
    <<27225, 23376>>,  \* 39
    <<35199, 29916>>,  \* 40
    <<27185, 26691>>,  \* 41
    <<33760, 33821>>,  \* 42
    <<29461, 29492, 26691>>,  \* 43
    <<26691, 23376>>,  \* 44
    <<26792>>,  \* 45
    <<26447>>,  \* 46
    <<26446, 23376>>,  \* 47
    <<35199, 32418, 26623>>,  \* 48
    <<40644, 29916>>,  \* 49
    <<32993, 33821, 21340>>,  \* 50
    <<29983, 33756>>,  \* 51
    <<33760, 33756>>,  \* 52
    <<33457, 26928, 33756>>,  \* 53
    <<21367, 24515, 33756>>,  \* 54
    <<27915, 33905>>,  \* 55
    <<22823, 33948>>,  \* 56
    <<22303, 35910>>,  \* 57
    <<32418, 34223>>,  \* 58
    <<21335, 29916>>,  \* 59
    <<29577, 31859>>,  \* 60
    <<35916, 35910>>,  \* 61
    <<25153, 35910>>,  \* 62
    <<32418, 35910>>,  \* 63
    <<32511, 35910>>,  \* 64
    <<40644, 35910>>,  \* 65
    <<40657, 35910>>   \* 66
>>

\* sample_map: {str(i): tok for i, tok in enumerate(list)} then '65': '的';
\* its iteration order is ascending index (key '65' keeps its place)
sample_map ==
    [k \in 0..(Len(sample_tokens) - 1) |->
        IF k = 65 THEN <<30340>> ELSE sample_tokens[k + 1]]

\* "输入包含未定义的映射符号"
msg_undefined == <<36755, 20837, 21253, 21547, 26410, 23450, 20041, 30340,
                   26144, 23556, 31526, 21495>>
\* "无法识别的编码片段，从位置 " and " 开始"
msg_segment_head == <<26080, 27861, 35782, 21035, 30340, 32534, 30721, 29255,
                      27573, 65292, 20174, 20301, 32622, 32>>
msg_segment_tail == <<32, 24320, 22987>>
\* "啊啊啊啊啊啊宝宝你是一个" and "的小蛋糕"
wrap_prefix == <<21834, 21834, 21834, 21834, 21834, 21834, 23453, 23453,
                 20320, 26159, 19968, 20010>>
wrap_suffix == <<30340, 23567, 34507, 31957>>
\* "错误: "
error_prefix == <<38169, 35823, 58, 32>>

----------------------------------------------------------------------------
(* Values of calls.                                                        *)

Return(v) == [tag |-> "return", val |-> v]
Raise(type, msg) == [tag |-> type, val |-> msg]

----------------------------------------------------------------------------
(* Python built-ins used by the codec.                                     *)

SetMax(S) == CHOOSE x \in S : \A y \in S : y <= x
SetMin(S) == CHOOSE x \in S : \A y \in S : x <= y

\* ''.join(list of strings)
RECURSIVE join(_)
join(parts) == IF parts = <<>> THEN <<>> ELSE Head(parts) \o join(Tail(parts))

\* '0' * n
zeros(n) == [k \in 1..n |-> 0]

\* set(s) == {'0'}
all_zero(s) == s # <<>> /\ \A k \in 1..Len(s) : s[k] = 0

\* the binary digits of v >= 0, most significant first, no leading zero
RECURSIVE bin_digits(_)
bin_digits(v) == IF v < 2 THEN <<v>> ELSE bin_digits(v \div 2) \o <<v % 2>>

\* f"{v:0{w}b}": the digits, zero-filled on the left to AT LEAST w
format_bin(v, w) ==
    LET d == bin_digits(v)
    IN  IF Len(d) >= w THEN d ELSE zeros(w - Len(d)) \o d

\* int(s, 2)
RECURSIVE int2(_)
int2(s) ==
    IF s = <<>> THEN 0 ELSE 2 * int2(SubSeq(s, 1, Len(s) - 1)) + s[Len(s)]

\* str(n) for n >= 0: the decimal digits as characters
RECURSIVE str_int(_)
str_int(n) ==
    IF n < 10 THEN <<48 + n>> ELSE str_int(n \div 10) \o <<48 + (n % 10)>>

\* s[a:a+w] for 0 <= a <= len(s) (0-based start, clipped at the end)
slice(s, a, w) == SubSeq(s, a + 1, IF a + w > Len(s) THEN Len(s) ELSE a + w)

\* [s[a:a+w] for a in range(0, len(s), w)]
split_every(s, w) ==
    [k \in 1..((Len(s) + w - 1) \div w) |-> slice(s, (k - 1) * w, w)]

\* s.startswith(tok, pos)
startswith(s, tok, pos) ==
    /\ pos + Len(tok) <= Len(s)
    /\ \A k \in 1..Len(tok) : s[pos + k] = tok[k]

----------------------------------------------------------------------------
(* str.encode('utf-8') and bytes.decode('utf-8') (strict).                 *)

\* the UnicodeEncodeError messages of the utf-8 codec:
\* "'utf-8' codec can't encode character '", "' in position ",
\* "'utf-8' codec can't encode characters in position ",
\* ": surrogates not allowed"
msg_encode_char == <<39, 117, 116, 102, 45, 56, 39, 32, 99, 111, 100, 101, 99, 32, 99, 97, 110, 39, 116, 32, 101, 110, 99, 111, 100, 101, 32, 99, 104, 97, 114, 97, 99, 116, 101, 114, 32, 39>>
msg_encode_in_position == <<39, 32, 105, 110, 32, 112, 111, 115, 105, 116, 105, 111, 110, 32>>
msg_encode_chars == <<39, 117, 116, 102, 45, 56, 39, 32, 99, 111, 100, 101, 99, 32, 99, 97, 110, 39, 116, 32, 101, 110, 99, 111, 100, 101, 32, 99, 104, 97, 114, 97, 99, 116, 101, 114, 115, 32, 105, 110, 32, 112, 111, 115, 105, 116, 105, 111, 110, 32>>
msg_encode_surrogates == <<58, 32, 115, 117, 114, 114, 111, 103, 97, 116, 101, 115, 32, 110, 111, 116, 32, 97, 108, 108, 111, 119, 101, 100>>

\* a lone surrogate, U+D800..U+DFFF, has no UTF-8 encoding
is_surrogate(c) == 55296 <= c /\ c <= 57343

\* one lowercase hexadecimal digit as a character
hex_digit(d) == IF d < 10 THEN 48 + d ELSE 87 + d

\* the escape '\uXXXX' of a code point below 65536
escape_u(c) ==
    <<92, 117, hex_digit(c \div 4096), hex_digit((c \div 256) % 16),
      hex_digit((c \div 16) % 16), hex_digit(c % 16)>>

\* text.encode('utf-8'): the bytes, or UnicodeEncodeError for the first run
\* of surrogates (positions are 0-based)
utf8_encode(text) ==
    LET bytes_of(c) ==
            IF c < 128 THEN <<c>>
            ELSE IF c < 2048 THEN <<192 + (c \div 64), 128 + (c % 64)>>
            ELSE IF c < 65536 THEN
                <<224 + (c \div 4096), 128 + ((c \div 64) % 64),
                  128 + (c % 64)>>
            ELSE <<240 + (c \div 262144), 128 + ((c \div 4096) % 64),
                   128 + ((c \div 64) % 64), 128 + (c % 64)>>
        bad == {k \in 1..Len(text) : is_surrogate(text[k])}
    IN  IF bad = {}
        THEN Return(join([k \in 1..Len(text) |-> bytes_of(text[k])]))
        ELSE LET first == SetMin(bad)
                 last == SetMax({k \in first..Len(text) :
                                    \A j \in first..k : j \in bad})
             IN  IF last = first
                 THEN Raise("UnicodeEncodeError",
                            msg_encode_char \o escape_u(text[first])
                            \o msg_encode_in_position \o str_int(first - 1)
                            \o msg_encode_surrogates)
                 ELSE Raise("UnicodeEncodeError",
                            msg_encode_chars \o str_int(first - 1) \o <<45>>
                            \o str_int(last - 1) \o msg_encode_surrogates)

\* number of bytes announced by a lead byte, 0 for an invalid start byte
utf8_len(b) ==
    IF b < 128 THEN 1
    ELSE IF 194 <= b /\ b <= 223 THEN 2
    ELSE IF 224 <= b /\ b <= 239 THEN 3
    ELSE IF 240 <= b /\ b <= 244 THEN 4
    ELSE 0

is_cont(b) == 128 <= b /\ b <= 191

\* the second byte excludes overlong forms, surrogates and > U+10FFFF
second_ok(lead, b) ==
    IF lead = 224 THEN 160 <= b /\ b <= 191
    ELSE IF lead = 237 THEN 128 <= b /\ b <= 159
    ELSE IF lead = 240 THEN 144 <= b /\ b <= 191
    ELSE IF lead = 244 THEN 128 <= b /\ b <= 143
    ELSE is_cont(b)

\* the code point of the n-byte sequence at the head of b
utf8_value(b, n) ==
    IF n = 1 THEN b[1]
    ELSE IF n = 2 THEN (b[1] - 192) * 64 + (b[2] - 128)
    ELSE IF n = 3 THEN
        (b[1] - 224) * 4096 + (b[2] - 128) * 64 + (b[3] - 128)
    ELSE (b[1] - 240) * 262144 + (b[2] - 128) * 4096
         + (b[3] - 128) * 64 + (b[4] - 128)

\* the reasons of UnicodeDecodeError: "invalid start byte",
\* "invalid continuation byte", "unexpected end of data"
reason_start == <<105, 110, 118, 97, 108, 105, 100, 32, 115, 116, 97, 114, 116, 32, 98, 121, 116, 101>>
reason_continuation == <<105, 110, 118, 97, 108, 105, 100, 32, 99, 111, 110, 116, 105, 110, 117, 97, 116, 105, 111, 110, 32, 98, 121, 116, 101>>
reason_end == <<117, 110, 101, 120, 112, 101, 99, 116, 101, 100, 32, 101, 110, 100, 32, 111, 102, 32, 100, 97, 116, 97>>

\* "'utf-8' codec can't decode byte 0x", " in position ",
\* "'utf-8' codec can't decode bytes in position "
msg_decode_byte == <<39, 117, 116, 102, 45, 56, 39, 32, 99, 111, 100, 101, 99, 32, 99, 97, 110, 39, 116, 32, 100, 101, 99, 111, 100, 101, 32, 98, 121, 116, 101, 32, 48, 120>>
msg_decode_in_position == <<32, 105, 110, 32, 112, 111, 115, 105, 116, 105, 111, 110, 32>>
msg_decode_bytes == <<39, 117, 116, 102, 45, 56, 39, 32, 99, 111, 100, 101, 99, 32, 99, 97, 110, 39, 116, 32, 100, 101, 99, 111, 100, 101, 32, 98, 121, 116, 101, 115, 32, 105, 110, 32, 112, 111, 115, 105, 116, 105, 111, 110, 32>>

ScanOk(cps) ==
    [tag |-> "return", val |-> cps, start |-> 0, stop |-> 0, reason |-> <<>>]
ScanError(from, to, why) ==
    [tag |-> "error", val |-> <<>>, start |-> from, stop |-> to,
     reason |-> why]

\* b.decode('utf-8') (strict) as the text, or as the attributes e.start,
\* e.end and e.reason of the UnicodeDecodeError for the first bad sequence.
\* The bytes after the lead byte are examined in order: a missing one is
\* the end of data, a wrong one an invalid continuation byte.
RECURSIVE utf8_scan(_)
utf8_scan(b) ==
    IF b = <<>> THEN ScanOk(<<>>)
    ELSE LET n == utf8_len(b[1])
             wrong == {j \in 2..n :
                         \/ j > Len(b)
                         \/ (j = 2 /\ ~second_ok(b[1], b[2]))
                         \/ (j > 2 /\ ~is_cont(b[j]))}
         IN  IF n = 0 THEN ScanError(0, 1, reason_start)
             ELSE IF wrong # {} THEN
                 IF SetMin(wrong) > Len(b)
                 THEN ScanError(0, Len(b), reason_end)
                 ELSE ScanError(0, SetMin(wrong) - 1, reason_continuation)
             ELSE LET rest == utf8_scan(SubSeq(b, n + 1, Len(b)))
                  IN  IF rest.tag = "return"
                      THEN ScanOk(<<utf8_value(b, n)>> \o rest.val)
                      ELSE ScanError(rest.start + n, rest.stop + n,
                                     rest.reason)

\* bytes.decode('utf-8'): the text, or UnicodeDecodeError with str(e)
utf8_decode(b) ==
    LET r == utf8_scan(b)
    IN  IF r.tag = "return" THEN Return(r.val)
        ELSE IF r.stop = r.start + 1
        THEN Raise("UnicodeDecodeError",
                   msg_decode_byte
                   \o <<hex_digit(b[r.start + 1] \div 16),
                        hex_digit(b[r.start + 1] % 16)>>
                   \o msg_decode_in_position \o str_int(r.start)
                   \o <<58, 32>> \o r.reason)
        ELSE Raise("UnicodeDecodeError",
                   msg_decode_bytes \o str_int(r.start) \o <<45>>
                   \o str_int(r.stop - 1) \o <<58, 32>> \o r.reason)

----------------------------------------------------------------------------
(* class Custom64.                                                         *)

\* the keys of a dict built by iterating the indices in ascending order,
\* in insertion order: a token is inserted where it first occurs
RECURSIVE keys_in_order(_, _)
keys_in_order(m, todo) ==
    IF todo = {} THEN <<>>
    ELSE LET k == SetMin(todo)
             first == \A j \in DOMAIN m : (j < k) => (m[j] # m[k])
         IN  (IF first THEN <<m[k]>> ELSE <<>>)
             \o keys_in_order(m, todo \ {k})

in_seq(x, s) == \E k \in 1..Len(s) : s[k] = x

\* __init__: encode_map, decode_map (a later index wins a duplicated token),
\* then the pad entries; decode_keys is the key order of decode_map
Custom64(mapping, pad_symbol) ==
    LET values == {mapping[k] : k \in DOMAIN mapping}
        keys0 == keys_in_order(mapping, DOMAIN mapping)
    IN  [ encode_map |->
            [k \in DOMAIN mapping \cup {pad_index} |->
                IF k = pad_index THEN pad_symbol ELSE mapping[k]],
          pad_index |-> pad_index,
          decode_map |->
            [v \in values \cup {pad_symbol} |->
                IF v = pad_symbol THEN pad_index
                ELSE SetMax({k \in DOMAIN mapping : mapping[k] = v})],
          decode_keys |->
            IF in_seq(pad_symbol, keys0) THEN keys0
            ELSE keys0 \o <<pad_symbol>> ]

\* _chunk_and_pad
chunk_and_pad_no_pad(bitstr, width) == split_every(bitstr, width)

chunk_and_pad(bitstr, width) ==
    LET rem == Len(bitstr) % width
        padded == IF rem # 0 THEN bitstr \o zeros(width - rem) ELSE bitstr
    IN  split_every(padded, width)

\* encode, lines 24-26: the index a chunk is looked up under
chunk_index_plain(self, chunk) == int2(chunk)

chunk_index(self, chunk) ==
    LET idx == int2(chunk)
    IN  IF idx = 0 /\ all_zero(chunk) THEN self.pad_index ELSE idx

\* f"{byte:08b}" of every byte, joined
byte_bits_lsb_first(data) ==
    join([k \in 1..Len(data) |->
            [j \in 1..byte_bits |-> (data[k] \div (2 ^ (j - 1))) % 2]])

bits_of_bytes(data) ==
    join([k \in 1..Len(data) |-> format_bin(data[k], byte_bits)])

\* encode, lines 20-27: the indices looked up for the bytes data, in chunk
\* order
encode_indices(self, data, width) ==
    LET bin_str == bits_of_bytes(data)
        chunks == chunk_and_pad(bin_str, width)
    IN  [k \in 1..Len(chunks) |-> chunk_index(self, chunks[k])]

\* encode: line 19 raises UnicodeEncodeError for a text with a surrogate; a
\* missing index raises KeyError at the first such chunk
encode(self, text, width) ==
    LET data == utf8_encode(text)
        idxs == encode_indices(self, data.val, width)
        missing == {k \in 1..Len(idxs) : idxs[k] \notin DOMAIN self.encode_map}
    IN  IF data.tag # "return" THEN data
        ELSE IF missing # {}
        THEN Raise("KeyError", str_int(idxs[SetMin(missing)]))
        ELSE Return(join([k \in 1..Len(idxs) |-> self.encode_map[idxs[k]]]))

\* sorted(keys, key=len, reverse=True): stable, longest first
RECURSIVE by_len_desc(_, _)
by_len_desc(keys, n) ==
    IF n < 0 THEN <<>>
    ELSE SelectSeq(keys, LAMBDA t : Len(t) = n) \o by_len_desc(keys, n - 1)

RECURSIVE by_len_asc(_, _, _)
by_len_asc(keys, n, top) ==
    IF n > top THEN <<>>
    ELSE SelectSeq(keys, LAMBDA t : Len(t) = n) \o by_len_asc(keys, n + 1, top)

max_len(keys) == SetMax({0} \cup {Len(keys[k]) : k \in 1..Len(keys)})

sorted_tokens_ascending(keys) == by_len_asc(keys, 0, max_len(keys))

sorted_tokens(keys) == by_len_desc(keys, max_len(keys))

\* the for loop of _segment (lines 56-60): the position in toks of the first
\* token that matches at pos, 0 when the loop ends without a break
first_match(toks, enc, pos) ==
    LET hits == {k \in 1..Len(toks) : startswith(enc, toks[k], pos)}
    IN  IF hits = {} THEN 0 ELSE SetMin(hits)

\* line 62: the ValueError of _segment
segment_error_off_by_one(pos) ==
    Raise("ValueError", msg_segment_head \o str_int(pos + 1) \o msg_segment_tail)

segment_error(pos) ==
    Raise("ValueError", msg_segment_head \o str_int(pos) \o msg_segment_tail)

\* line 59: i += len(tok)
advance_by_one(pos, tok) == pos + 1

advance(pos, tok) == pos + Len(tok)

\* the while loop of _segment from position pos on (tokens are not empty)
RECURSIVE segment_from(_, _, _, _)
segment_from(toks, enc, pos, segs) ==
    IF ~(pos < Len(enc)) THEN Return(segs)
    ELSE LET m == first_match(toks, enc, pos)
         IN  IF m = 0 THEN segment_error(pos)
             ELSE segment_from(toks, enc, advance(pos, toks[m]),
                               Append(segs, toks[m]))

\* _segment
segment(self, enc) ==
    segment_from(sorted_tokens(self.decode_keys), enc, 0, <<>>)

\* decode, line 35: the bits one index contributes
index_bits(self, idx, width) ==
    IF idx = self.pad_index THEN zeros(width) ELSE format_bin(idx, width)

\* decode, lines 34-37
decode_bin_str(self, idx_list, width) ==
    join([k \in 1..Len(idx_list) |-> index_bits(self, idx_list[k], width)])

\* decode, lines 41-42: is the group appended to data_bytes
keeps_group_always(bstr) == TRUE

keeps_group(bstr) == ~all_zero(bstr)

\* decode, lines 38-43
decode_bytes(bin_str) ==
    LET byte_chunks == split_every(bin_str, byte_bits)
        kept == SelectSeq(byte_chunks, keeps_group)
    IN  [k \in 1..Len(kept) |-> int2(kept[k])]

\* decode after _segment returned segs (lines 31-44)
decode_segments(self, segs, width) ==
    IF \E k \in 1..Len(segs) : segs[k] \notin DOMAIN self.decode_map
    THEN Raise("ValueError", msg_undefined)
    ELSE LET idx_list == [k \in 1..Len(segs) |-> self.decode_map[segs[k]]]
         IN  utf8_decode(decode_bytes(decode_bin_str(self, idx_list, width)))

\* decode
decode(self, enc, width) ==
    LET seg == segment(self, enc)
    IN  IF seg.tag # "return" THEN seg
        ELSE decode_segments(self, seg.val, width)

\* index(), lines 136-147: the result passed to the template.  None is
\* [tag |-> "None"]; a str result has tag "str"; f"错误: {e}" has the type of
\* the exception as tag and error_prefix followed by str(e) as val
wrap_no_prefix(s) == s \o wrap_suffix

wrap(s) == wrap_prefix \o s \o wrap_suffix

render(r, v) ==
    IF r.tag = "return" THEN [tag |-> "str", val |-> v]
    ELSE [tag |-> r.tag, val |-> error_prefix \o r.val]

index(self, method, action, text) ==
    IF method # "POST" THEN [tag |-> "None", val |-> <<>>]
    ELSE IF action = "encode" THEN
        LET r == encode(self, text, bit_width) IN render(r, wrap(r.val))
    ELSE IF action = "decode" THEN
        LET r == decode(self, text, bit_width) IN render(r, r.val)
    ELSE [tag |-> "None", val |-> <<>>]

----------------------------------------------------------------------------
(* Inputs.                                                                 *)

\* all sequences over S of length 0..n
RECURSIVE seqs_upto(_, _)
seqs_upto(S, n) ==
    IF n = 0 THEN {<<>>}
    ELSE LET shorter == seqs_upto(S, n - 1)
         IN  shorter \cup {Append(q, x) : q \in shorter, x \in S}

\* code points of the texts: U+0000, U+0001, 'A', 'D', U+00E9 (2 bytes),
\* U+4E2D (3 bytes) and the lone surrogate U+D800
TextChars == {0, 1, 65, 68, 233, 20013, 55296}
Texts == seqs_upto(TextChars, MaxTextLen)
\* request.form holds decoded UTF-8: a form text has no lone surrogate
FormTexts == {t \in Texts : \A k \in 1..Len(t) : ~is_surrogate(t[k])}

\* strings given to decode: tokens of these indices of sample_map and two
\* characters that are no token ('啊' starts none, '西' starts two)
PieceIndices == {0, 16, 36, 48, 58, 64, 65, 66}
Pieces == {sample_map[k] : k \in PieceIndices} \cup {<<21834>>, <<35199>>}
DecodeInputs == {join(q) : q \in seqs_upto(Pieces, MaxPieces)}

\* small tables: sample_map-shaped mappings of TableSize tokens over 'a', 'b'
TableSize == 2
SmallChars == {97, 98}
SmallTokens == seqs_upto(SmallChars, MaxTokLen) \ {<<>>}
SmallMaps ==
    {[k \in (0..(TableSize - 1)) \cup {65} |->
        IF k = 65 THEN pad_symbol_default ELSE q[k + 1]] :
     q \in [1..TableSize -> SmallTokens]}
SmallInputs == seqs_upto(SmallChars \cup {30340}, MaxEncLen)

----------------------------------------------------------------------------
(* The program: calls on the shared coder, and requests to index().        *)

NoCall == [fn |-> "none", arg |-> <<>>]
NoRet == [tag |-> "none", val |-> <<>>]
NoForm == [method |-> "none", action |-> "none", text |-> <<>>]
NoResult == [tag |-> "None", val |-> <<>>]

InitRest ==
    /\ call = NoCall
    /\ ret = NoRet
    /\ form = NoForm
    /\ result = NoResult
    /\ pc = "idle"
    /\ encoded = <<>>
    /\ tokens = <<>>
    /\ i = 0
    /\ segments = <<>>

\* line 80: coder = Custom64(sample_map)
Init ==
    /\ coder = Custom64(sample_map, pad_symbol_default)
    /\ InitRest

\* A call or a request is taken up when none is being handled (pc "idle")
\* and is handled in one step; Finish drops its locals.
Encode(text) ==
    /\ pc = "idle"
    /\ call' = [fn |-> "encode", arg |-> text]
    /\ ret' = encode(coder, text, bit_width)
    /\ pc' = "returned"
    /\ UNCHANGED <<coder, form, result, encoded, tokens, i, segments>>

Decode(enc) ==
    /\ pc = "idle"
    /\ call' = [fn |-> "decode", arg |-> enc]
    /\ ret' = decode(coder, enc, bit_width)
    /\ pc' = "returned"
    /\ UNCHANGED <<coder, form, result, encoded, tokens, i, segments>>

Index(method, action, text) ==
    /\ form' = [method |-> method, action |-> action, text |-> text]
    /\ result' = index(coder, method, action, text)
    /\ pc' = "rendered"
    /\ UNCHANGED <<coder, call, ret, encoded, tokens, i, segments>>

CallEncode == \E text \in Texts : Encode(text)
CallDecode == \E enc \in DecodeInputs : Decode(enc)
IndexGet == pc = "idle" /\ Index("GET", "none", <<>>)
IndexPostEncode ==
    pc = "idle" /\ \E text \in FormTexts : Index("POST", "encode", text)
IndexPostDecode ==
    pc = "idle" /\ \E text \in DecodeInputs : Index("POST", "decode", text)
IndexPostOther ==
    pc = "idle" /\ \E text \in {<<>>, <<65>>} : Index("POST", "none", text)
\* the user submits the displayed result of an encode request for decoding
IndexPostDecodeResult ==
    /\ pc = "rendered"
    /\ form.method = "POST" /\ form.action = "encode"
    /\ Index("POST", "decode", result.val)
Finish ==
    /\ pc \in {"returned", "rendered"}
    /\ call' = NoCall /\ ret' = NoRet /\ form' = NoForm /\ result' = NoResult
    /\ pc' = "idle"
    /\ UNCHANGED <<coder, encoded, tokens, i, segments>>

Next ==
    \/ CallEncode
    \/ CallDecode
    \/ IndexGet
    \/ IndexPostEncode
    \/ IndexPostDecode
    \/ IndexPostDecodeResult
    \/ IndexPostOther
    \/ Finish

Spec == Init /\ [][Next]_vars

----------------------------------------------------------------------------
(* decode() executed one iteration of the while loop of _segment at a      *)
(* time, on a coder built from a small table.                              *)

InitSeg ==
    /\ coder \in {Custom64(m, pad_symbol_default) : m \in SmallMaps}
    /\ InitRest

\* decode() is called: _segment sorts the tokens and starts at 0
DecodeCall ==
    /\ pc = "idle"
    /\ \E enc \in SmallInputs :
        /\ encoded' = enc
        /\ call' = [fn |-> "decode", arg |-> enc]
    /\ tokens' = sorted_tokens(coder.decode_keys)
    /\ i' = 0
    /\ segments' = <<>>
    /\ ret' = NoRet
    /\ pc' = "while"
    /\ UNCHANGED <<coder, form, result>>

\* an iteration whose for loop breaks at the first matching token
SegmentMatch ==
    /\ pc = "while"
    /\ i < Len(encoded)
    /\ first_match(tokens, encoded, i) # 0
    /\ LET tok == tokens[first_match(tokens, encoded, i)]
       IN  /\ segments' = Append(segments, tok)
           /\ i' = advance(i, tok)
    /\ UNCHANGED <<coder, call, ret, form, result, pc, encoded, tokens>>

\* an iteration whose for loop ends without a break: the ValueError leaves
\* _segment and decode
SegmentRaise ==
    /\ pc = "while"
    /\ i < Len(encoded)
    /\ first_match(tokens, encoded, i) = 0
    /\ ret' = segment_error(i)
    /\ pc' = "raised"
    /\ UNCHANGED <<coder, call, form, result, encoded, tokens, i, segments>>

\* the while loop ends: _segment returns segments
SegmentReturn ==
    /\ pc = "while"
    /\ ~(i < Len(encoded))
    /\ pc' = "segmented"
    /\ UNCHANGED <<coder, call, ret, form, result, encoded, tokens, i, segments>>

\* lines 31-44 of decode on the returned segments
DecodeFinish ==
    /\ pc = "segmented"
    /\ ret' = decode_segments(coder, segments, bit_width)
    /\ pc' = "done"
    /\ UNCHANGED <<coder, call, form, result, encoded, tokens, i, segments>>

\* the call is over, by return or by exception: its locals are dropped
DecodeExit ==
    /\ pc \in {"raised", "done"}
    /\ call' = NoCall /\ ret' = NoRet
    /\ encoded' = <<>> /\ tokens' = <<>> /\ i' = 0 /\ segments' = <<>>
    /\ pc' = "idle"
    /\ UNCHANGED <<coder, form, result>>

\* the steps of the while loop of _segment
SegLoop == SegmentMatch \/ SegmentRaise \/ SegmentReturn

NextSeg ==
    \/ DecodeCall
    \/ SegmentMatch
    \/ SegmentRaise
    \/ SegmentReturn
    \/ DecodeFinish
    \/ DecodeExit

SpecSeg == InitSeg /\ [][NextSeg]_vars

\* the loop is synchronous code: once entered, nothing suspends it
FairSpecSeg == SpecSeg /\ WF_vars(SegLoop)

----------------------------------------------------------------------------
(* Vocabulary of the properties of encode: the bit stream of a byte        *)
(* sequence and its chunks, by arithmetic on the bytes.                    *)

\* bit p (0-based) of the most-significant-bit-first stream of data,
\* 0 beyond its end
stream_bit(data, p) ==
    IF p < byte_bits * Len(data)
    THEN (data[(p \div byte_bits) + 1]
            \div (2 ^ (byte_bits - 1 - (p % byte_bits)))) % 2
    ELSE 0

\* the integer of bits [6k, 6k+6) of the stream (k 0-based)
chunk_value(data, k) ==
    stream_bit(data, 6 * k) * 32 + stream_bit(data, 6 * k + 1) * 16
    + stream_bit(data, 6 * k + 2) * 8 + stream_bit(data, 6 * k + 3) * 4
    + stream_bit(data, 6 * k + 4) * 2 + stream_bit(data, 6 * k + 5)

\* ceil(8n / 6)
num_chunks(data) == (8 * Len(data) + 5) \div 6

\* the text has UTF-8 bytes (no lone surrogate), and these bytes
Encodable(text) == utf8_encode(text).tag = "return"
Bytes(text) == utf8_encode(text).val

\* a text with UTF-8 bytes and no all-zero chunk other than possibly the
\* final zero-padded chunk
Clean(text) ==
    /\ Encodable(text)
    /\ LET data == Bytes(text)
       IN  \A k \in 0..(num_chunks(data) - 1) :
               chunk_value(data, k) = 0 =>
                   (k = num_chunks(data) - 1 /\ (8 * Len(data)) % 6 # 0)

HasZeroByte(text) ==
    /\ Encodable(text)
    /\ \E k \in 1..Len(Bytes(text)) : Bytes(text)[k] = 0

Encoded == pc = "returned" /\ call.fn = "encode"

RoundTrip == decode(coder, ret.val, bit_width)

\* C1 as stated: with the reference table and bit width 6, every text whose
\* 6-bit chunks are not all-zero, except possibly the final zero-padded
\* chunk, satisfies decode(encode(text)) = text.
C1_RoundTripClean ==
    (Encoded /\ Clean(call.arg)) =>
        (ret.tag = "return" /\ RoundTrip = Return(call.arg))

\* C1 amended: with the reference table and bit width 6, every text that
\* has no 0x00 byte and whose 6-bit chunks are not all-zero, except possibly
\* the final zero-padded chunk, satisfies decode(encode(text)) = text.
C1_RoundTripCleanNoZeroByte ==
    (Encoded /\ Clean(call.arg) /\ ~HasZeroByte(call.arg)) =>
        (ret.tag = "return" /\ RoundTrip = Return(call.arg))

\* a clean text of 3 characters, one of them of several bytes, whose last
\* chunk is padded, came back from decode
C1_Witness ==
    /\ Encoded /\ Clean(call.arg) /\ ~HasZeroByte(call.arg)
    /\ Len(call.arg) = 3
    /\ \E k \in 1..Len(call.arg) : call.arg[k] > 127
    /\ (8 * Len(Bytes(call.arg))) % 6 # 0
    /\ RoundTrip = Return(call.arg)

\* C2: with the reference table and bit width 6, for every text with a 0x00
\* byte decode(encode(text)) succeeds and is the text with every 0x00 byte
\* removed and the other bytes kept in order, hence differs from the text.
C2_ZeroByteErased ==
    (Encoded /\ HasZeroByte(call.arg)) =>
        /\ ret.tag = "return"
        /\ RoundTrip.tag = "return"
        /\ Bytes(RoundTrip.val)
             = SelectSeq(Bytes(call.arg), LAMBDA b : b # 0)
        /\ RoundTrip.val # call.arg

\* a text with a 0x00 byte between two other characters lost only that byte
C2_Witness ==
    /\ Encoded
    /\ Len(call.arg) = 3
    /\ call.arg[1] # 0 /\ call.arg[2] = 0 /\ call.arg[3] # 0
    /\ RoundTrip = Return(<<call.arg[1], call.arg[3]>>)

\* the tokens of the output of encode, as decode's tokenizer reads them
OutputTokens == segment(coder, ret.val)

occurs_in(tok, s) == \E p \in 0..Len(s) : startswith(s, tok, p)

\* C3: encode emits the pad token (index 65) for every chunk of value 0,
\* data or padding, and its output has no occurrence of the index-0 token
\* (a text without UTF-8 bytes has no chunks: encode raises, with no output).
C3_ZeroChunkIsPad ==
    /\ (Encoded /\ ~Encodable(call.arg)) => ret.tag = "UnicodeEncodeError"
    /\ (Encoded /\ Encodable(call.arg)) =>
        LET data == Bytes(call.arg)
        IN  /\ ret.tag = "return"
            /\ OutputTokens.tag = "return"
            /\ Len(OutputTokens.val) = num_chunks(data)
            /\ \A k \in 0..(num_chunks(data) - 1) :
                 chunk_value(data, k) = 0 =>
                    /\ OutputTokens.val[k + 1] = coder.encode_map[pad_index]
                    /\ OutputTokens.val[k + 1] # coder.encode_map[0]
            /\ ~occurs_in(coder.encode_map[0], ret.val)

\* a text without a 0x00 byte whose second chunk, bits of two data bytes
\* and not the last chunk, is zero: it came out as the pad token
C3_Witness ==
    /\ Encoded /\ Encodable(call.arg) /\ ~HasZeroByte(call.arg)
    /\ LET data == Bytes(call.arg)
       IN  /\ num_chunks(data) >= 3
           /\ chunk_value(data, 1) = 0
           /\ OutputTokens.val[2] = pad_symbol_default

\* the token encode must emit for chunk k of data
expected_token(data, k) ==
    IF chunk_value(data, k) = 0 THEN pad_symbol_default
    ELSE sample_map[chunk_value(data, k)]

\* C4: encode with bit width 6 on n bytes returns exactly ceil(8n/6) tokens,
\* token k being the table token of bits [6k, 6k+6) of the zero-padded bit
\* string (the pad token for 0); encode("A") is the index-16 token twice.
C4_EncodeChunks ==
    (Encoded /\ Encodable(call.arg)) =>
        LET data == Bytes(call.arg)
            K == num_chunks(data)
        IN  /\ ret = Return(join([k \in 1..K |-> expected_token(data, k - 1)]))
            /\ OutputTokens.tag = "return" /\ Len(OutputTokens.val) = K
            /\ (call.arg = <<65>> =>
                    ret.val = sample_tokens[17] \o sample_tokens[17])

\* encode("A") returned two tokens
C4_Witness ==
    /\ Encoded /\ call.arg = <<65>>
    /\ OutputTokens = Return(<<sample_tokens[17], sample_tokens[17]>>)

----------------------------------------------------------------------------
(* Properties of decode on the reference table.                            *)

Decoded == pc = "returned" /\ call.fn = "decode"

\* the tokens, indices and bit string of the decode call just made
ArgTokens == segment(coder, call.arg)
ArgIndices == [k \in 1..Len(ArgTokens.val) |-> coder.decode_map[ArgTokens.val[k]]]
ArgBits == decode_bin_str(coder, ArgIndices, bit_width)

\* the 6 bits of an index: zeros for the pad index, else the 6 binary
\* digits whose value is the index
six_bits_of(idx, bits) ==
    /\ Len(bits) = 6
    /\ IF idx = pad_index THEN all_zero(bits) ELSE int2(bits) = idx

\* C5: in decode with bit width 6 and the reference table every token of
\* the table contributes exactly 6 bits, so k tokens give 6k bits and the
\* bits of token j are at [6j, 6j+6).
C5_SixBitsPerToken ==
    (Decoded /\ ArgTokens.tag = "return") =>
        /\ Len(ArgBits) = 6 * Len(ArgIndices)
        /\ \A j \in 0..(Len(ArgIndices) - 1) :
             six_bits_of(ArgIndices[j + 1], slice(ArgBits, 6 * j, 6))

\* the bytes of the complete 8-bit groups of bits, zero groups dropped
complete_group_bytes(bits) ==
    SelectSeq([g \in 1..(Len(bits) \div 8) |->
                  int2(SubSeq(bits, 8 * g - 7, 8 * g))],
              LAMBDA b : b # 0)

\* C6: when the bit count of the token string is not a multiple of 8, the
\* output bytes of decode come only from the complete 8-bit groups; the
\* final partial group yields no byte, whatever its bits.
C6_PartialGroupDiscarded ==
    (Decoded /\ ArgTokens.tag = "return" /\ Len(ArgBits) % 8 # 0) =>
        /\ decode_bytes(ArgBits) = complete_group_bytes(ArgBits)
        /\ ret = utf8_decode(complete_group_bytes(ArgBits))

----------------------------------------------------------------------------
(* The shell.                                                              *)

segment_error_at_0 ==
    [tag |-> "ValueError",
     val |-> error_prefix \o msg_segment_head \o <<48>> \o msg_segment_tail]

\* C10: the result of an encode request is encode(text) between the fixed
\* prefix and suffix; no token of the reference table begins with the first
\* character of the prefix, and submitting the result to the decode action
\* gives the segmentation error message for position 0, never the text.
C10_WrappedResult ==
    /\ [](( pc = "rendered" /\ form.action = "encode") =>
            /\ result = [tag |-> "str",
                         val |-> wrap_prefix
                                 \o encode(coder, form.text, bit_width).val
                                 \o wrap_suffix]
            /\ \A tok \in DOMAIN coder.decode_map : tok[1] # wrap_prefix[1])
    /\ [][( /\ pc = "rendered" /\ form.action = "encode"
            /\ pc' = "rendered" /\ form'.text = result.val )
          => ( /\ form'.action = "decode"
               /\ result' = segment_error_at_0
               /\ result'.val # form.text )]_vars

\* the wrapped encoding of "A" was submitted for decoding and refused
C10_Witness ==
    /\ pc = "rendered" /\ form.action = "decode"
    /\ form.text = wrap_prefix \o sample_tokens[17] \o sample_tokens[17]
                   \o wrap_suffix
    /\ result = segment_error_at_0

----------------------------------------------------------------------------
(* Properties of the tokenizer, on every small table.                      *)

TableTokens == DOMAIN coder.decode_map

proper_prefix(ta, tb) == Len(ta) < Len(tb) /\ SubSeq(tb, 1, Len(ta)) = ta

\* C7: when greedy consumption from position 0 reaches a position p where
\* no table token is a prefix of the rest, decode raises the segmentation
\* error reporting exactly p, the summed length of the consumed tokens, and
\* returns no text.
C7_SegmentationErrorPosition ==
    /\ []( pc = "raised" =>
            /\ i = Len(join(segments))
            /\ join(segments) = SubSeq(encoded, 1, i)
            /\ \A tok \in TableTokens : ~startswith(encoded, tok, i)
            /\ ret = Raise("ValueError",
                           msg_segment_head \o str_int(Len(join(segments)))
                           \o msg_segment_tail)
            /\ decode(coder, encoded, bit_width) = ret )
    /\ [][( /\ pc = "while" /\ i < Len(encoded)
            /\ \A tok \in TableTokens : ~startswith(encoded, tok, i) )
          => pc' = "raised"]_vars

\* the error was raised at position 2, after two tokens were consumed
C7_Witness ==
    /\ pc = "raised"
    /\ Len(segments) = 2
    /\ i = 2
    /\ ret = Raise("ValueError",
                   msg_segment_head \o <<50>> \o msg_segment_tail)

\* C8: with no empty token in the table the tokenizer terminates on every
\* input: an iteration advances the position by at least one character or
\* raises the segmentation error; it ends with a token list whose
\* concatenation is the whole input or with that error, and the outcome is
\* the one the input and the table determine.
C8_TokenizerTerminates ==
    /\ [][pc = "while" =>
            \/ (pc' = "while" /\ i' >= i + 1)
            \/ (pc' = "raised" /\ ret' = segment_error(i))
            \/ (pc' = "segmented" /\ ~(i < Len(encoded)))]_vars
    /\ [](pc = "segmented" =>
            /\ join(segments) = encoded
            /\ segment(coder, encoded) = Return(segments))
    /\ [](pc = "raised" => segment(coder, encoded) = ret)
    /\ [](<<>> \notin TableTokens)
    /\ (pc = "while") ~> (pc \in {"segmented", "raised"})

\* a 3-character input was segmented into a 2-character and a 1-character
\* token
C8_Witness ==
    /\ pc = "segmented"
    /\ Len(encoded) = 3
    /\ Len(segments) = 2 /\ Len(segments[1]) = 2
    /\ join(segments) = encoded

\* C9: when tokens A and B of the table, A a proper prefix of B, both match
\* at the scan position, the tokenizer consumes the longest matching token,
\* never A.
C9_GreedyLongest ==
    [][( pc = "while" /\ Len(segments') = Len(segments) + 1 ) =>
        LET consumed == segments'[Len(segments')]
        IN  /\ startswith(encoded, consumed, i)
            /\ \A ta, tb \in TableTokens :
                 ( /\ proper_prefix(ta, tb)
                   /\ startswith(encoded, ta, i)
                   /\ startswith(encoded, tb, i) )
                 => (consumed # ta /\ Len(consumed) >= Len(tb))]_vars

\* the token consumed at position 1 has a proper prefix in the table, which
\* matched there too
C9_Witness ==
    /\ Len(segments) >= 2
    /\ \E ta \in TableTokens :
        /\ proper_prefix(ta, segments[2])
        /\ startswith(encoded, ta, Len(segments[1]))
        /\ startswith(encoded, segments[2], Len(segments[1]))

====
